---- MODULE Spec2Model ----
(***************************************************************************)
(* WeakSelf<T> (src/src/lib.rs): a write-once slot, embedded in an object  *)
(* that lives behind an Arc, holding a Weak pointer back to an Arc'd       *)
(* object.                                                                 *)
(*                                                                         *)
(* Objects are the allocations made by Arc::new.  Object o embeds slot o.  *)
(* arc[o] holds the two counters of o's allocation as Arc::strong_count    *)
(* and Arc::weak_count report them.                                        *)
(***************************************************************************)
EXTENDS Naturals, FiniteSets

\* ------------------------------------------------------------- bounds
\* Most Arc<T> handles to one object that client code holds at a time.
MaxStrong == 2
\* Most Weak<T> pointers to one object that client code holds at a time.
MaxWeak == 2

\* The allocations: two objects, so that a handle to "a different object"
\* exists.
Objs == {1, 2}

\* Reader threads 1..NThreads; thread 0 is the constructing thread.
NThreads == 2

Threads == 1..NThreads

Procs == 0..NThreads

\* The object the threads share.
X == 1

\* Option::None for Option<Weak<T>>; Some(weak) is the object weak points to.
None == 0

VARIABLES
    state,    \* state[o]: "unalloc", "alive" (T not yet dropped), "dropped"
    arc,      \* arc[o] = [strong |-> .., weak |-> ..]: the allocation's counts
    cell,     \* cell[s]: content of the UnsafeCell of slot s
    handles,  \* handles[o]: Arc<T> handles to o held by client code
    weaks,    \* weaks[o]: Weak<T> pointers to o held by client code
    inits,    \* ghost: successful init calls on slot s (0, 1, 2 = "many")
    first,    \* ghost: object the first successful read of slot s returned
    last,     \* ghost: the call that was made last and its outcome
    pc,       \* pc[t]: where thread t stands inside the call it is making
    loc,      \* loc[t]: what thread t's try_get inside get answered
    held      \* held[t]: Weak clones that get returned to t and t still holds

vars == <<state, arc, cell, handles, weaks, inits, first, last, pc, loc, held>>

\* The client variables: fixed while threads run.
seqvars == <<state, arc, cell, handles, weaks, inits, first, last>>

\* The thread variables: fixed in the single-threaded specifications.
thrvars == <<pc, loc, held>>

\* ------------------------------------------------ std::sync::{Arc, Weak}
\* Arc::new(value): one strong handle, no Weak.
Arc_new == [strong |-> 1, weak |-> 0]

Arc_strong_count(a) == a.strong

Arc_weak_count(a) == a.weak

\* Mutant: the slot takes an owning clone instead of a Weak.
Arc_downgrade_owning(a) == [a EXCEPT !.strong = @ + 1]

\* Arc::downgrade(content): one more Weak, strong count untouched.
Arc_downgrade(a) == [a EXCEPT !.weak = @ + 1]

Arc_clone(a) == [a EXCEPT !.strong = @ + 1]

Arc_drop(a) == [a EXCEPT !.strong = @ - 1]

\* Mutant: the reference is handed out without being counted.
Weak_clone_uncounted(a) == a

Weak_clone(a) == [a EXCEPT !.weak = @ + 1]

Weak_drop(a) == [a EXCEPT !.weak = @ - 1]

\* Weak::upgrade succeeds exactly while a strong handle is alive.
Weak_upgrade_ok(a) == a.strong > 0

\* --------------------------------------------------------- WeakSelf<T>
\* WeakSelf::new(): UnsafeCell::new(None).
WeakSelf_new == None

\* Default::default() is WeakSelf::new().
WeakSelf_default == WeakSelf_new

\* Mutant: only the strong count is checked.
NotExclusive_strong_only(a) == Arc_strong_count(a) # 1

\* Mutant: the two conditions are joined by && instead of ||.
NotExclusive_both(a) == Arc_strong_count(a) # 1 /\ Arc_weak_count(a) # 0

\* The condition under which init panics.
NotExclusive(a) == Arc_strong_count(a) # 1 \/ Arc_weak_count(a) # 0

\* Mutant: try_get always answers None.
try_get_none(c) == None

\* try_get: match on the cell; Some(ref weak) => Some(&weak), None => None.
try_get(c) == IF c # None THEN c ELSE None

\* Option::expect in get panics exactly on None.
expect_panics(opt) == opt = None

\* Mutant: a clone of the new Weak is stored and the original is leaked.
StoreCounts_clone(a, s, o) ==
    LET old == cell[s]
        a1  == [a EXCEPT ![o] = Weak_clone(Arc_downgrade(@))]
    IN  IF old # None THEN [a1 EXCEPT ![old] = Weak_drop(@)] ELSE a1

\* The assignment *cell = Some(weak): the old content is dropped, and with it
\* the Weak it held.
StoreCounts(a, s, o) ==
    LET old == cell[s]
        a1  == [a EXCEPT ![o] = Arc_downgrade(@)]
    IN  IF old # None THEN [a1 EXCEPT ![old] = Weak_drop(@)] ELSE a1

\* Dropping T drops the embedded slot, and with it the Weak it holds.
DropSlotCounts(a, s) ==
    IF cell[s] # None THEN [a EXCEPT ![cell[s]] = Weak_drop(@)] ELSE a

Sat(n) == IF n >= 2 THEN 2 ELSE n + 1

Call(op, s, o, res, abort) ==
    [op |-> op, slot |-> s, obj |-> o, res |-> res, abort |-> abort, out |-> "",
     by |-> 0]

\* The Weak clones that the threads in S hold.
RECURSIVE SumHeld(_)
SumHeld(S) ==
    IF S = {} THEN 0
    ELSE LET t == CHOOSE u \in S : TRUE IN held[t] + SumHeld(S \ {t})

\* A call made by thread t.
CallBy(t, op, res, abort) == [Call(op, 1, 1, res, abort) EXCEPT !.by = t]

\* ---------------------------------------------------------------- Init
Init ==
    /\ state = [o \in Objs |-> "unalloc"]
    /\ arc = [o \in Objs |-> [strong |-> 0, weak |-> 0]]
    /\ cell = [o \in Objs |-> None]
    /\ handles = [o \in Objs |-> 0]
    /\ weaks = [o \in Objs |-> 0]
    /\ inits = [o \in Objs |-> 0]
    /\ first = [o \in Objs |-> None]
    /\ last = Call("none", None, None, None, FALSE)
    /\ pc = [t \in Procs |-> "start"]
    /\ loc = [t \in Procs |-> None]
    /\ held = [t \in Procs |-> 0]

\* ------------------------------------------------------- client actions
\* Arc::new(Foo { weak_self: WeakSelf::new() }), or WeakSelf::default().
ArcNew(o, byDefault) ==
    /\ state[o] = "unalloc"
    /\ state' = [state EXCEPT ![o] = "alive"]
    /\ arc' = [arc EXCEPT ![o] = Arc_new]
    /\ cell' = [cell EXCEPT ![o] = IF byDefault THEN WeakSelf_default ELSE WeakSelf_new]
    /\ handles' = [handles EXCEPT ![o] = 1]
    /\ last' = Call(IF byDefault THEN "default" ELSE "new", o, o, None, FALSE)
    /\ UNCHANGED <<weaks, inits, first>>
    /\ UNCHANGED thrvars

\* A client clones a handle it holds.
ArcClone(o) ==
    /\ handles[o] >= 1
    /\ handles[o] < MaxStrong
    /\ arc' = [arc EXCEPT ![o] = Arc_clone(@)]
    /\ handles' = [handles EXCEPT ![o] = @ + 1]
    /\ last' = Call("arc_clone", None, o, None, FALSE)
    /\ UNCHANGED <<state, cell, weaks, inits, first>>
    /\ UNCHANGED thrvars

\* A client drops a handle; the last one drops T and the slot inside it.
ArcDrop(o) ==
    /\ handles[o] >= 1
    /\ handles' = [handles EXCEPT ![o] = @ - 1]
    /\ LET a1 == [arc EXCEPT ![o] = Arc_drop(@)]
       IN  IF a1[o].strong = 0
           THEN /\ state' = [state EXCEPT ![o] = "dropped"]
                /\ arc' = DropSlotCounts(a1, o)
                /\ cell' = [cell EXCEPT ![o] = None]
           ELSE /\ arc' = a1
                /\ UNCHANGED <<state, cell>>
    /\ last' = Call("arc_drop", None, o, None, FALSE)
    /\ UNCHANGED <<weaks, inits, first>>
    /\ UNCHANGED thrvars

\* A client takes a Weak of its own from a handle it holds.
ArcDowngrade(o) ==
    /\ handles[o] >= 1
    /\ weaks[o] < MaxWeak
    /\ arc' = [arc EXCEPT ![o] = Arc_downgrade(@)]
    /\ weaks' = [weaks EXCEPT ![o] = @ + 1]
    /\ last' = Call("arc_downgrade", None, o, None, FALSE)
    /\ UNCHANGED <<state, cell, handles, inits, first>>
    /\ UNCHANGED thrvars

\* A client drops a Weak it holds (its own, or one that get returned).
WeakDrop(o) ==
    /\ weaks[o] >= 1
    /\ arc' = [arc EXCEPT ![o] = Weak_drop(@)]
    /\ weaks' = [weaks EXCEPT ![o] = @ - 1]
    /\ last' = Call("weak_drop", None, o, None, FALSE)
    /\ UNCHANGED <<state, cell, handles, inits, first>>
    /\ UNCHANGED thrvars

\* A client upgrades a Weak it holds: Some(handle) while the object is alive.
WeakUpgrade(o) ==
    /\ weaks[o] >= 1
    /\ IF Weak_upgrade_ok(arc[o])
       THEN /\ handles[o] < MaxStrong
            /\ arc' = [arc EXCEPT ![o] = Arc_clone(@)]
            /\ handles' = [handles EXCEPT ![o] = @ + 1]
            /\ last' = Call("upgrade", None, o, o, FALSE)
       ELSE /\ last' = Call("upgrade", None, o, None, FALSE)
            /\ UNCHANGED <<arc, handles>>
    /\ UNCHANGED <<state, cell, weaks, inits, first>>
    /\ UNCHANGED thrvars

\* ------------------------------------------------- WeakSelf operations
\* Mutant: the Weak is stored before the counts are checked.
WeakSelfInit_store_first(s, o) ==
    /\ state[s] = "alive"
    /\ handles[o] >= 1
    /\ arc' = StoreCounts(arc, s, o)
    /\ cell' = [cell EXCEPT ![s] = o]
    /\ IF NotExclusive(arc[o])
       THEN /\ last' = Call("init", s, o, None, TRUE)
            /\ UNCHANGED inits
       ELSE /\ inits' = [inits EXCEPT ![s] = Sat(@)]
            /\ last' = Call("init", s, o, None, FALSE)
    /\ UNCHANGED <<state, handles, weaks, first>>
    /\ UNCHANGED thrvars

\* s.weak_self.init(&h), h a handle to o that the caller holds.
WeakSelfInit(s, o) ==
    /\ state[s] = "alive"
    /\ handles[o] >= 1
    /\ IF NotExclusive(arc[o])
       THEN /\ last' = Call("init", s, o, None, TRUE)
            /\ UNCHANGED <<arc, cell, inits>>
       ELSE /\ arc' = StoreCounts(arc, s, o)
            /\ cell' = [cell EXCEPT ![s] = o]
            /\ inits' = [inits EXCEPT ![s] = Sat(@)]
            /\ last' = Call("init", s, o, None, FALSE)
    /\ UNCHANGED <<state, handles, weaks, first>>
    /\ UNCHANGED thrvars

\* s.weak_self.try_get()
WeakSelfTryGet(s) ==
    /\ state[s] = "alive"
    /\ LET r == try_get(cell[s])
       IN  /\ last' = Call("try_get", s, r, r, FALSE)
           /\ first' = IF first[s] = None THEN [first EXCEPT ![s] = r] ELSE first
    /\ UNCHANGED <<state, arc, cell, handles, weaks, inits>>
    /\ UNCHANGED thrvars

\* Mutant: get answers a dangling Weak::new() where the slot is empty.
WeakSelfGet_or_default(s) ==
    /\ state[s] = "alive"
    /\ LET r == try_get(cell[s])
       IN  IF r = None
           THEN /\ last' = Call("get", s, None, None, FALSE)
                /\ UNCHANGED <<arc, weaks, first>>
           ELSE /\ weaks[r] < MaxWeak
                /\ arc' = [arc EXCEPT ![r] = Weak_clone(@)]
                /\ weaks' = [weaks EXCEPT ![r] = @ + 1]
                /\ first' = IF first[s] = None THEN [first EXCEPT ![s] = r] ELSE first
                /\ last' = Call("get", s, r, r, FALSE)
    /\ UNCHANGED <<state, cell, handles, inits>>
    /\ UNCHANGED thrvars

\* s.weak_self.get(): try_get().expect(..).clone()
WeakSelfGet(s) ==
    /\ state[s] = "alive"
    /\ LET r == try_get(cell[s])
       IN  IF expect_panics(r)
           THEN /\ last' = Call("get", s, None, None, TRUE)
                /\ UNCHANGED <<arc, weaks, first>>
           ELSE /\ weaks[r] < MaxWeak
                /\ arc' = [arc EXCEPT ![r] = Weak_clone(@)]
                /\ weaks' = [weaks EXCEPT ![r] = @ + 1]
                /\ first' = IF first[s] = None THEN [first EXCEPT ![s] = r] ELSE first
                /\ last' = Call("get", s, r, r, FALSE)
    /\ UNCHANGED <<state, cell, handles, inits>>
    /\ UNCHANGED thrvars

\* The text Debug renders for a Weak<T>.
Weak_fmt == "(Weak)"

\* Mutant: Debug goes through get's expect, which panics on an empty slot.
WeakSelfFmt_via_get(s) ==
    /\ state[s] = "alive"
    /\ LET r == try_get(cell[s])
       IN  IF expect_panics(r)
           THEN last' = Call("fmt", s, None, None, TRUE)
           ELSE last' = [Call("fmt", s, r, r, FALSE) EXCEPT !.out = Weak_fmt]
    /\ UNCHANGED <<state, arc, cell, handles, weaks, inits, first>>
    /\ UNCHANGED thrvars

\* format!("{:?}", s.weak_self)
WeakSelfFmt(s) ==
    /\ state[s] = "alive"
    /\ LET r == try_get(cell[s])
       IN  last' = [Call("fmt", s, r, r, FALSE) EXCEPT
                       !.out = IF r = None THEN "Empty WeakSelf<T>" ELSE Weak_fmt]
    /\ UNCHANGED <<state, arc, cell, handles, weaks, inits, first>>
    /\ UNCHANGED thrvars

Next ==
    \/ \E o \in Objs, d \in BOOLEAN : ArcNew(o, d)
    \/ \E o \in Objs : ArcClone(o)
    \/ \E o \in Objs : ArcDrop(o)
    \/ \E o \in Objs : ArcDowngrade(o)
    \/ \E o \in Objs : WeakDrop(o)
    \/ \E o \in Objs : WeakUpgrade(o)
    \/ \E s \in Objs, o \in Objs : WeakSelfInit(s, o)
    \/ \E s \in Objs : WeakSelfTryGet(s)
    \/ \E s \in Objs : WeakSelfGet(s)
    \/ \E s \in Objs : WeakSelfFmt(s)

Spec == Init /\ [][Next]_vars

\* ------------------------------------------- the documented pattern
\* Foo::new() of the documentation: Arc::new(Foo { weak_self:
\* WeakSelf::new() }), then foo.weak_self.init(&foo), then foo is returned.
\* A panic in init unwinds and drops foo.
FooNew(o) ==
    /\ state[o] = "unalloc"
    /\ LET a0 == [arc EXCEPT ![o] = Arc_new]
       IN  IF NotExclusive(a0[o])
           THEN /\ state' = [state EXCEPT ![o] = "dropped"]
                /\ arc' = [a0 EXCEPT ![o] = Arc_drop(@)]
                /\ last' = Call("foo_new", o, o, None, TRUE)
                /\ UNCHANGED <<cell, handles, inits>>
           ELSE /\ state' = [state EXCEPT ![o] = "alive"]
                /\ arc' = StoreCounts(a0, o, o)
                /\ cell' = [cell EXCEPT ![o] = o]
                /\ handles' = [handles EXCEPT ![o] = 1]
                /\ inits' = [inits EXCEPT ![o] = Sat(@)]
                /\ last' = Call("foo_new", o, o, o, FALSE)
    /\ UNCHANGED <<weaks, first>>
    /\ UNCHANGED thrvars

\* foo.weak().upgrade(): Foo::weak is self.weak_self.get(); the temporary
\* Weak is upgraded and dropped again.
FooWeakUpgrade(o) ==
    /\ state[o] = "alive"
    /\ LET r == try_get(cell[o])
       IN  IF expect_panics(r)
           THEN /\ last' = Call("get_upgrade", o, None, None, TRUE)
                /\ UNCHANGED <<arc, handles>>
           ELSE LET a1 == [arc EXCEPT ![r] = Weak_clone(@)]
                IN  IF Weak_upgrade_ok(a1[r])
                    THEN /\ handles[r] < MaxStrong
                         /\ arc' = [a1 EXCEPT ![r] = Weak_drop(Arc_clone(@))]
                         /\ handles' = [handles EXCEPT ![r] = @ + 1]
                         /\ last' = Call("get_upgrade", o, r, r, FALSE)
                    ELSE /\ arc' = [a1 EXCEPT ![r] = Weak_drop(@)]
                         /\ last' = Call("get_upgrade", o, r, None, FALSE)
                         /\ UNCHANGED handles
    /\ UNCHANGED <<state, cell, weaks, inits, first>>
    /\ UNCHANGED thrvars

\* Clients of Foo: the slot is a private field, reached only through
\* Foo::new and Foo::weak.
PatternNext ==
    \/ \E o \in Objs : FooNew(o)
    \/ \E o \in Objs : ArcClone(o)
    \/ \E o \in Objs : ArcDrop(o)
    \/ \E o \in Objs : WeakSelfGet(o)
    \/ \E o \in Objs : FooWeakUpgrade(o)
    \/ \E o \in Objs : WeakUpgrade(o)
    \/ \E o \in Objs : WeakDrop(o)

PatternSpec == Init /\ [][PatternNext]_vars

\* ------------------------------------------------------------ threads
\* Thread 0 builds the object; the other threads borrow it (&foo, and &h for
\* init) while thread 0 keeps its handle h. Every step is one access to the
\* shared counters or to the cell.
Step(t) == CallBy(t, "step", None, FALSE)

MainNew ==
    /\ pc[0] = "start"
    /\ state[X] = "unalloc"
    /\ state' = [state EXCEPT ![X] = "alive"]
    /\ arc' = [arc EXCEPT ![X] = Arc_new]
    /\ cell' = [cell EXCEPT ![X] = WeakSelf_new]
    /\ handles' = [handles EXCEPT ![X] = 1]
    /\ pc' = [pc EXCEPT ![0] = "idle"]
    /\ last' = Call("new", X, X, None, FALSE)
    /\ UNCHANGED <<weaks, inits, first, loc, held>>

\* Thread 0 hands &foo to the other threads once its init has returned.
MainPublish ==
    /\ pc[0] = "idle"
    /\ inits[X] >= 1
    /\ pc' = [t \in Procs |-> IF t = 0 THEN "published" ELSE "idle"]
    /\ last' = Call("publish", X, X, None, FALSE)
    /\ UNCHANGED <<state, arc, cell, handles, weaks, inits, first, loc, held>>

\* Thread 0 hands &foo and &h to the other threads without calling init.
MainShare ==
    /\ pc[0] = "idle"
    /\ inits[X] = 0
    /\ pc' = [t \in Procs |-> IF t = 0 THEN "published" ELSE "idle"]
    /\ last' = Call("share", X, X, None, FALSE)
    /\ UNCHANGED <<state, arc, cell, handles, weaks, inits, first, loc, held>>

\* init, first load: Arc::strong_count(content) != 1.
InitCheckStrong(t) ==
    /\ pc[t] = "idle"
    /\ IF Arc_strong_count(arc[X]) # 1
       THEN /\ last' = CallBy(t, "init", None, TRUE)
            /\ UNCHANGED pc
       ELSE /\ last' = Step(t)
            /\ pc' = [pc EXCEPT ![t] = "init_weak"]
    /\ UNCHANGED <<state, arc, cell, handles, weaks, inits, first, loc, held>>

\* Mutant: a call also panics while another init call is past its check.
InitCheckWeak_guarded(t) ==
    /\ pc[t] = "init_weak"
    /\ IF \/ Arc_weak_count(arc[X]) # 0
          \/ \E u \in Procs \ {t} :
                pc[u] \in {"init_downgrade", "init_drop_old", "init_write"}
       THEN /\ last' = CallBy(t, "init", None, TRUE)
            /\ pc' = [pc EXCEPT ![t] = "idle"]
       ELSE /\ last' = Step(t)
            /\ pc' = [pc EXCEPT ![t] = "init_downgrade"]
    /\ UNCHANGED <<state, arc, cell, handles, weaks, inits, first, loc, held>>

\* init, second load: Arc::weak_count(content) != 0.
InitCheckWeak(t) ==
    /\ pc[t] = "init_weak"
    /\ IF Arc_weak_count(arc[X]) # 0
       THEN /\ last' = CallBy(t, "init", None, TRUE)
            /\ pc' = [pc EXCEPT ![t] = "idle"]
       ELSE /\ last' = Step(t)
            /\ pc' = [pc EXCEPT ![t] = "init_downgrade"]
    /\ UNCHANGED <<state, arc, cell, handles, weaks, inits, first, loc, held>>

\* init: let weak = Arc::downgrade(content).
InitDowngrade(t) ==
    /\ pc[t] = "init_downgrade"
    /\ arc' = [arc EXCEPT ![X] = Arc_downgrade(@)]
    /\ pc' = [pc EXCEPT ![t] = "init_drop_old"]
    /\ last' = Step(t)
    /\ UNCHANGED <<state, cell, handles, weaks, inits, first, loc, held>>

\* Mutant: the assignment waits while another thread is inside its own.
InitDropOld_locked(t) ==
    /\ pc[t] = "init_drop_old"
    /\ \A u \in Procs \ {t} : pc[u] # "init_write"
    /\ arc' = DropSlotCounts(arc, X)
    /\ pc' = [pc EXCEPT ![t] = "init_write"]
    /\ last' = Step(t)
    /\ UNCHANGED <<state, cell, handles, weaks, inits, first, loc, held>>

\* init, the assignment *cell = Some(weak), first half: the old content is
\* read and dropped in place.
InitDropOld(t) ==
    /\ pc[t] = "init_drop_old"
    /\ arc' = DropSlotCounts(arc, X)
    /\ pc' = [pc EXCEPT ![t] = "init_write"]
    /\ last' = Step(t)
    /\ UNCHANGED <<state, cell, handles, weaks, inits, first, loc, held>>

\* init, the assignment, second half: the new content is written (one word:
\* a racing read sees the old or the new content).
InitWrite(t) ==
    /\ pc[t] = "init_write"
    /\ cell' = [cell EXCEPT ![X] = X]
    /\ inits' = [inits EXCEPT ![X] = Sat(@)]
    /\ pc' = [pc EXCEPT ![t] = "idle"]
    /\ last' = CallBy(t, "init", None, FALSE)
    /\ UNCHANGED <<state, arc, handles, weaks, first, loc, held>>

\* try_get: one read of the cell.
TryGetCall(t) ==
    /\ pc[t] = "idle"
    /\ LET r == try_get(cell[X])
       IN  /\ last' = CallBy(t, "try_get", r, FALSE)
           /\ first' = IF first[X] = None THEN [first EXCEPT ![X] = r] ELSE first
    /\ UNCHANGED <<state, arc, cell, handles, weaks, inits, pc, loc, held>>

\* get: self.try_get()
GetTryGet(t) ==
    /\ pc[t] = "idle"
    /\ held[t] < MaxWeak
    /\ loc' = [loc EXCEPT ![t] = try_get(cell[X])]
    /\ pc' = [pc EXCEPT ![t] = "get_expect"]
    /\ last' = Step(t)
    /\ UNCHANGED <<state, arc, cell, handles, weaks, inits, first, held>>

\* get: .expect("expected WeakSelf to be initialized")
GetExpect(t) ==
    /\ pc[t] = "get_expect"
    /\ IF expect_panics(loc[t])
       THEN /\ last' = CallBy(t, "get", None, TRUE)
            /\ pc' = [pc EXCEPT ![t] = "idle"]
       ELSE /\ last' = Step(t)
            /\ pc' = [pc EXCEPT ![t] = "get_clone"]
    /\ UNCHANGED <<state, arc, cell, handles, weaks, inits, first, loc, held>>

\* Mutant: get moves the Weak out of the cell (Option::take) instead of
\* cloning it.
GetClone_take(t) ==
    /\ pc[t] = "get_clone"
    /\ cell' = [cell EXCEPT ![X] = None]
    /\ held' = [held EXCEPT ![t] = @ + 1]
    /\ first' = IF first[X] = None THEN [first EXCEPT ![X] = loc[t]] ELSE first
    /\ pc' = [pc EXCEPT ![t] = "idle"]
    /\ last' = CallBy(t, "get", loc[t], FALSE)
    /\ UNCHANGED <<state, arc, handles, weaks, inits, loc>>

\* get: .clone() of the Weak the reference points to.
GetClone(t) ==
    /\ pc[t] = "get_clone"
    /\ arc' = [arc EXCEPT ![loc[t]] = Weak_clone(@)]
    /\ held' = [held EXCEPT ![t] = @ + 1]
    /\ first' = IF first[X] = None THEN [first EXCEPT ![X] = loc[t]] ELSE first
    /\ pc' = [pc EXCEPT ![t] = "idle"]
    /\ last' = CallBy(t, "get", loc[t], FALSE)
    /\ UNCHANGED <<state, cell, handles, weaks, inits, loc>>

\* A thread drops a clone that get returned to it.
DropClone(t) ==
    /\ pc[t] = "idle"
    /\ held[t] >= 1
    /\ arc' = [arc EXCEPT ![X] = Weak_drop(@)]
    /\ held' = [held EXCEPT ![t] = @ - 1]
    /\ last' = CallBy(t, "weak_drop", None, FALSE)
    /\ UNCHANGED <<state, cell, handles, weaks, inits, first, pc, loc>>

\* The statements a thread at p has still to run before its call returns.
StepsLeft(p) ==
    CASE p = "init_weak" -> 4
      [] p = "init_downgrade" -> 3
      [] p = "init_drop_old" -> 2
      [] p = "init_write" -> 1
      [] p = "get_expect" -> 2
      [] p = "get_clone" -> 1
      [] OTHER -> 0

\* Thread 0's one init call, made before the object is published.
MainInit ==
    \/ (inits[X] = 0 /\ InitCheckStrong(0))
    \/ InitCheckWeak(0)
    \/ InitDowngrade(0)
    \/ InitDropOld(0)
    \/ InitWrite(0)

Read(t) ==
    \/ TryGetCall(t)
    \/ GetTryGet(t)
    \/ GetExpect(t)
    \/ GetClone(t)
    \/ DropClone(t)

RacingInit(t) ==
    \/ InitCheckStrong(t)
    \/ InitCheckWeak(t)
    \/ InitDowngrade(t)
    \/ InitDropOld(t)
    \/ InitWrite(t)

\* The documented discipline: init has returned before any reader starts.
ReadNext ==
    \/ MainNew
    \/ MainInit
    \/ MainPublish
    \/ \E t \in Threads : Read(t)

ReadSpec == Init /\ [][ReadNext]_vars

\* No discipline: the threads call init, get and try_get as they like.
RaceNext ==
    \/ MainNew
    \/ MainShare
    \/ \E t \in Threads : RacingInit(t)
    \/ \E t \in Threads : Read(t)

RaceSpec == Init /\ [][RaceNext]_vars

\* ===================================================================
\* Claims checked under Spec: a single-threaded client of the API.
\* ===================================================================
\* C1 (as stated): the content of a slot is set at most once: after one
\* successful init no later init stores again, and the content of a live slot
\* never returns to None.
C1_SetAtMostOnce ==
    \A s \in Objs :
        /\ inits[s] <= 1
        /\ (state[s] = "alive" /\ inits[s] >= 1) => cell[s] # None

\* C2: init panics whenever the handle's strong count is not 1 or its weak
\* count is not 0, and a panicking init changes neither the cells nor any
\* strong or weak count.
C2_InitAbortsNoEffect ==
    [][last'.op = "init" =>
          /\ (arc[last'.obj].strong # 1 \/ arc[last'.obj].weak # 0) => last'.abort
          /\ last'.abort => (cell' = cell /\ arc' = arc /\ inits' = inits)]_vars

C2_Witness ==
    /\ last.op = "init"
    /\ last.abort
    /\ arc[last.obj].strong = 1
    /\ arc[last.obj].weak >= 1
    /\ cell[last.slot] = None

\* C3: the strong count of every allocated object equals the number of owning
\* handles held outside the slots, so the object is dropped exactly when the
\* last such handle is, whether or not its slot is initialized.
C3_SlotNeverOwns ==
    \A o \in Objs :
        state[o] # "unalloc" =>
            /\ arc[o].strong = handles[o]
            /\ (handles[o] = 0) <=> (state[o] = "dropped")

C3_Witness ==
    /\ last.op = "arc_drop"
    /\ state[last.obj] = "dropped"
    /\ inits[last.obj] >= 1

\* C4 (as stated): every get and try_get on an initialized slot returns a
\* reference to the object that the first such call returned.
C4_ReadsNeverChange ==
    (last.op \in {"get", "try_get"} /\ ~last.abort /\ last.res # None)
        => last.res = first[last.slot]

\* C6: on a slot on which no init has succeeded, try_get returns None and get
\* panics, leaving the cells and counts as they were.
C6_UninitializedReads ==
    [][(last'.op \in {"try_get", "get"} /\ inits[last'.slot] = 0) =>
          /\ last'.op = "try_get" => (last'.res = None /\ ~last'.abort)
          /\ last'.op = "get" => (last'.abort /\ cell' = cell /\ arc' = arc)]_vars

C6_Witness ==
    /\ last.op = "get"
    /\ last.abort
    /\ inits[last.slot] = 0
    /\ \E o \in Objs : arc[o].weak >= 1

\* C7: once init has succeeded on a slot, get returns a clone of the stored
\* reference: it does not panic, the result is the object the cell holds,
\* that object's weak count rises by one, and no strong count, no other weak
\* count and no cell changes.
C7_GetClones ==
    [][(last'.op = "get" /\ inits[last'.slot] >= 1) =>
          /\ ~last'.abort
          /\ last'.res = cell[last'.slot]
          /\ last'.res # None
          /\ arc' = [arc EXCEPT ![last'.res].weak = @ + 1]
          /\ cell' = cell]_vars

C7_Witness ==
    /\ last.op = "get"
    /\ ~last.abort
    /\ inits[last.slot] >= 1
    /\ arc[last.res].weak = 2
    /\ arc[last.res].strong = 1

\* C8: try_get never panics, returns the content of the cell (None when the
\* slot is empty), and changes neither the cells nor any count.
C8_TryGetPure ==
    [][last'.op = "try_get" =>
          /\ ~last'.abort
          /\ last'.res = cell[last'.slot]
          /\ cell' = cell
          /\ arc' = arc
          /\ handles' = handles
          /\ weaks' = weaks]_vars

C8_Witness ==
    /\ last.op = "try_get"
    /\ last.res # None
    /\ last.res = cell[last.slot]

\* ===================================================================
\* Claim checked under PatternSpec: the documented pattern.
\* ===================================================================
\* C5: for an object built by Foo::new, get().upgrade() returns a handle to
\* that object whenever an owning handle is alive, and a Weak that get
\* returned upgrades to that object while an owning handle is alive and to
\* None once all owning handles have been dropped.
C5_UpgradeRoundTrip ==
    [][/\ (last'.op = "get_upgrade" /\ handles[last'.slot] >= 1) =>
              /\ ~last'.abort
              /\ last'.res = last'.slot
              /\ handles' = [handles EXCEPT ![last'.slot] = @ + 1]
       /\ last'.op = "get" => (~last'.abort /\ last'.res = last'.slot)
       /\ last'.op = "upgrade" =>
              last'.res = IF handles[last'.obj] >= 1 THEN last'.obj ELSE None]_vars

C5_Witness ==
    /\ last.op = "upgrade"
    /\ last.res = None
    /\ state[last.obj] = "dropped"
    /\ inits[last.obj] = 1
    /\ handles[last.obj] = 0

\* ===================================================================
\* Claim checked under ReadSpec: readers start after init has returned.
\* ===================================================================
\* C9: once the object is published, in every interleaving of the readers'
\* steps no read panics, every read returns the object itself, the cell
\* keeps the content that the one init stored, and the weak count is one
\* plus the number of clones that the readers hold.
C9_ConcurrentReadsSafe ==
    pc[0] = "published" =>
        /\ cell[X] = X
        /\ inits[X] = 1
        /\ arc[X].strong = 1
        /\ arc[X].weak = 1 + SumHeld(Threads)
        /\ \A t \in Threads :
              /\ pc[t] \in {"idle", "get_expect", "get_clone"}
              /\ pc[t] \in {"get_expect", "get_clone"} => loc[t] = X
        /\ last.op \in {"get", "try_get"} => (~last.abort /\ last.res = X)

C9_Witness ==
    /\ pc[0] = "published"
    /\ pc[1] = "get_clone"
    /\ pc[2] = "get_expect"
    /\ held[1] >= 1
    /\ held[2] >= 1

\* ===================================================================
\* Claim checked under RaceSpec: threads racing on one slot and handle.
\* ===================================================================
\* C10: the count check takes no notice of other init calls in progress: a
\* call passes it whenever the counts it loads are strong = 1 and weak = 0,
\* and a call that has passed it derives its Weak and writes the cell
\* whatever the other threads do; so two calls that both load the counts
\* before either derives its Weak both write the cell.
C10_CheckIgnoresRacingInit ==
    [][\A t \in Threads :
          /\ (pc[t] = "idle" /\ last'.by = t /\ last'.op = "init" /\ last'.abort)
                => arc[X].strong # 1
          /\ (pc[t] = "init_weak" /\ pc'[t] # pc[t] /\ arc[X].weak = 0)
                => pc'[t] = "init_downgrade"
          /\ (pc[t] = "init_downgrade" /\ pc'[t] # pc[t])
                => pc'[t] = "init_drop_old"
          /\ (pc[t] = "init_drop_old" /\ pc'[t] # pc[t])
                => pc'[t] = "init_write"
          /\ (pc[t] = "init_write" /\ pc'[t] # pc[t])
                => /\ cell'[X] = X
                   /\ last'.op = "init"
                   /\ last'.by = t
                   /\ ~last'.abort]_vars

C10_Witness ==
    /\ inits[X] = 2
    /\ cell[X] = X
    /\ arc[X].weak = 2
    /\ SumHeld(Threads) = 0
    /\ \A t \in Threads : pc[t] = "idle"

\* ===================================================================
\* Further claims checked under Spec.
\* ===================================================================
\* C11 (as stated): the reference stored in an initialized slot points to the
\* object in which the slot is embedded, whatever handle was passed to init.
C11_AlwaysSelfReference ==
    \A s \in Objs : (state[s] = "alive" /\ cell[s] # None) => cell[s] = s

\* C11 (amended): a slot that is empty or holds a reference to its own object
\* stays so across every step other than a successful init that was passed a
\* handle to another object; so an initialized slot is a self-reference as
\* long as every successful init on it was passed a handle to its own object.
C11_SelfReferenceUnlessForeignHandle ==
    [][\A s \in Objs :
          (/\ cell[s] \in {None, s}
           /\ ~(/\ last'.op = "init"
                /\ ~last'.abort
                /\ last'.slot = s
                /\ last'.obj # s))
              => cell'[s] \in {None, s}]_vars

C11_Witness ==
    /\ last.op = "init"
    /\ ~last.abort
    /\ last.obj = last.slot
    /\ cell[last.slot] = last.slot
    /\ \A o \in Objs : state[o] = "alive"

\* C13: an init passed a handle with strong = 1 and weak = 0 does not panic;
\* afterwards the slot holds a reference to that handle's object, whose
\* strong count is still 1 and whose weak count is exactly 1, and no other
\* slot has changed.
C13_InitStoresFirstWeak ==
    [][(/\ last'.op = "init"
        /\ arc[last'.obj].strong = 1
        /\ arc[last'.obj].weak = 0) =>
          /\ ~last'.abort
          /\ cell' = [cell EXCEPT ![last'.slot] = last'.obj]
          /\ arc'[last'.obj] = [strong |-> 1, weak |-> 1]
          /\ handles' = handles
          /\ weaks' = weaks]_vars

C13_Witness ==
    /\ last.op = "init"
    /\ ~last.abort
    /\ cell[last.slot] = last.obj
    /\ arc[last.obj] = [strong |-> 1, weak |-> 1]
    /\ weaks[last.obj] = 0
    /\ \A s \in Objs \ {last.slot} : cell[s] # last.obj

\* C14: while some slot stores a reference to an object, or a client holds a
\* Weak to it (a clone that get returned), every init passed a handle to
\* that object panics and leaves every cell as it was; so a second init on
\* the same slot with the same handle panics and the stored reference stays.
C14_InitAbortsWhileWeakExists ==
    [][(/\ last'.op = "init"
        /\ \/ \E s \in Objs : cell[s] = last'.obj
           \/ weaks[last'.obj] >= 1) =>
          /\ last'.abort
          /\ cell' = cell
          /\ arc' = arc]_vars

C14_Witness ==
    /\ last.op = "init"
    /\ last.abort
    /\ last.obj = last.slot
    /\ inits[last.slot] = 1
    /\ cell[last.slot] = last.slot
    /\ arc[last.obj] = [strong |-> 1, weak |-> 1]

\* C15: Debug formatting never panics, renders "Empty WeakSelf<T>" for an
\* empty slot and the stored Weak's own Debug text for an initialized one,
\* and changes no cell, no count and nothing that clients hold.
C15_DebugTotalReadOnly ==
    [][last'.op = "fmt" =>
          /\ ~last'.abort
          /\ last'.out = IF cell[last'.slot] = None
                         THEN "Empty WeakSelf<T>" ELSE Weak_fmt
          /\ cell' = cell
          /\ arc' = arc
          /\ handles' = handles
          /\ weaks' = weaks]_vars

C15_Witness ==
    /\ last.op = "fmt"
    /\ last.out = "Empty WeakSelf<T>"
    /\ cell[last.slot] = None
    /\ \E s \in Objs : cell[s] # None

\* ===================================================================
\* Further claim checked under RaceSpec.
\* ===================================================================
\* C16: no call blocks. A thread inside init or get can take its next step in
\* every reachable state, whatever the other threads are doing; each of its
\* steps brings the call strictly closer to its end (at most 5 steps for
\* init, 3 for get, 1 for try_get); and no step of another thread moves it.
C16_NoCallBlocks ==
    /\ [](\A t \in Threads :
            StepsLeft(pc[t]) > 0 => ENABLED (RacingInit(t) \/ Read(t)))
    /\ [][\A t \in Threads :
            /\ (last'.by = t /\ StepsLeft(pc[t]) > 0)
                  => StepsLeft(pc'[t]) < StepsLeft(pc[t])
            /\ (last'.by = t /\ last'.op \in {"init", "get", "try_get"})
                  => pc'[t] = "idle"
            /\ (last'.by # t /\ pc[t] # "start") => pc'[t] = pc[t]]_vars

C16_Witness ==
    /\ pc[1] = "init_drop_old"
    /\ pc[2] = "init_write"
    /\ cell[X] = None

====
